---- MODULE Spec2Model ----
(***************************************************************************)
(* State-machine model of background.js, the service worker of the        *)
(* "No Hooting Around" extension: tracking commands, tab events, the      *)
(* session manager, the capture gate, the classification round trip and   *)
(* the off-task intervention.  Every handler body runs to completion      *)
(* (single-threaded event loop); setTimeout callbacks, the                *)
(* captureVisibleTab callback, the fetch continuation and the tabs.get    *)
(* callback are separate steps that interleave with the other handlers.   *)
(***************************************************************************)
EXTENDS Integers, Sequences, FiniteSets, TLC

(* ---------------------------- bounds ----------------------------------- *)
\* Date.now() at the moment the script is loaded (any reading >= 1000 ms).
LoadTime == 5000
\* Granularity of the clock: one Tick advances Date.now() by TickStep ms.
TickStep == 1000
\* Number of Ticks explored.
MaxTicks == 4
\* Number of sessions created (accepted startSession calls) explored.
MaxSessions == 2
\* Number of sessions created in a burst of page loads (SpecBurst).
MaxBurst == 3
\* Number of chrome.tabs.get callbacks outstanding for one tab.
MaxPending == 1

(* ---------------------- program constants ------------------------------ *)
CaptureDelay == 2000
MinCaptureInterval == 1000
OffTaskThreshold == 70
InterventionDelay == 2000
Radix == 10

(* ------------------------- input domains ------------------------------- *)
Tabs == {1, 2}
\* tab.url when the browser does not report one (undefined).
Undefined == "<undefined>"
WorkUrl == "https://work.example.com"
SocialUrl == "https://social.example.com"
Urls == {Undefined, "", "about:blank", "chrome://newtab/", WorkUrl, SocialUrl}
Goals == {"finish report", "write code"}
Statuses == {"loading", "complete"}

\* currentSession = null
NoSession == [tabId |-> 0, url |-> "", sessionId |-> 0]

VARIABLES
    currentSession,   \* let currentSession
    lastCaptureTime,  \* let lastCaptureTime
    isTracking,       \* let isTracking
    currentGoal,      \* let currentGoal
    tabHistory,       \* let tabHistory: tabId -> sequence of urls
    now,              \* Date.now()
    timers,           \* pending setTimeout callbacks of startSession
    captures,         \* pending captureVisibleTab callbacks
    fetches,          \* classification requests in flight
    lookups,          \* pending chrome.tabs.get callbacks of onActivated, per tab
    offTaskTimers,    \* pending setTimeout callbacks of handleOffTask
    sessionIds,       \* history: sessionId of every session created, in order
    curUid,           \* history: index in sessionIds of the current session, 0 if none
    attempts,         \* history: the takeScreenshot calls made, by scheduling session
    cmdState          \* history: tracking state as set by the commands alone

vars == <<currentSession, lastCaptureTime, isTracking, currentGoal, tabHistory,
          now, timers, captures, fetches, lookups, offTaskTimers,
          sessionIds, curUid, attempts, cmdState>>

progVars == <<currentSession, lastCaptureTime, isTracking, currentGoal, tabHistory>>

MaxTime == LoadTime + MaxTicks * TickStep

(* ------------------------- pure helpers -------------------------------- *)
\* String.prototype.startsWith
StartsWith(s, p) == Len(s) >= Len(p) /\ SubSeq(s, 1, Len(p)) = p

\* !url
Falsy(url) == url = Undefined \/ url = ""

\* the guard shared by updateTabHistory and startSession
IsRestricted(url) ==
    Falsy(url) \/ StartsWith(url, "chrome://") \/ StartsWith(url, "about:")

\* tab.url || "about:blank"
OrAboutBlank(url) == IF Falsy(url) THEN "about:blank" ELSE url

\* mutant of ShouldAppend: every visit is recorded
ShouldAppendAlways(history, url) == TRUE

\* history.length === 0 || history[history.length - 1] !== url
ShouldAppend(history, url) ==
    Len(history) = 0 \/ history[Len(history)] # url

\* mutant of UpdateTabHistory: the latest entry is overwritten, not kept
UpdateTabHistoryOverwrites(hist, tabId, url) ==
    IF IsRestricted(url) THEN hist
    ELSE IF Len(hist[tabId]) = 0
         THEN [hist EXCEPT ![tabId] = Append(@, url)]
         ELSE [hist EXCEPT ![tabId][Len(hist[tabId])] = url]

\* updateTabHistory(tabId, url): the new value of tabHistory
UpdateTabHistory(hist, tabId, url) ==
    IF IsRestricted(url) THEN hist
    ELSE IF ShouldAppend(hist[tabId], url)
         THEN [hist EXCEPT ![tabId] = Append(@, url)]
         ELSE hist

\* mutant of NewSession: a live session is updated in place and keeps its tab
NewSessionInPlace(tabId, url) ==
    IF currentSession # NoSession
    THEN [currentSession EXCEPT !.url = url, !.sessionId = now]
    ELSE [tabId |-> tabId, url |-> url, sessionId |-> now]

\* the session object built by startSession
NewSession(tabId, url) == [tabId |-> tabId, url |-> url, sessionId |-> now]


\* mutant of EndSession: the session is left in place
EndSessionKeeps(session) == session

\* endSession(): the new value of currentSession
EndSession(session) == IF session # NoSession THEN NoSession ELSE session

\* the condition the setTimeout callback of startSession tests
TimerGuard(tabId) == currentSession # NoSession /\ currentSession.tabId = tabId

\* mutant of GateDenied: the boundary is denied too
GateDeniedInclusive(time) == time - lastCaptureTime <= MinCaptureInterval

\* takeScreenshot: now - lastCaptureTime < 1000
GateDenied(time) == time - lastCaptureTime < MinCaptureInterval

\* analyzeScreenshotWithOpenAI: the negation of
\* !currentSession || currentSession.sessionId !== sessionId
SessionValid(sessionId) ==
    currentSession # NoSession /\ currentSession.sessionId = sessionId

(* ----- the response body: response.json(), if (data), parseInt --------- *)
JNull == [t |-> "null", s |-> "null"]
JNum(text) == [t |-> "num", s |-> text]
JStr(text) == [t |-> "str", s |-> text]
\* the bodies the scoring service is taken to answer with
Replies == {JNull, JNum("0"), JNum("40"), JNum("70"), JNum("71"), JNum("85"),
            JNum("70.9"), JStr(""), JStr("abc"), JStr(" 85%")}

\* if (data)
Truthy(d) ==
    CASE d.t = "null" -> FALSE
      [] d.t = "num"  -> d.s # "0"
      [] OTHER        -> d.s # ""

DigitChars == "0123456789"
CharAt(s, i) == SubSeq(s, i, i)
IsDigit(c) == \E k \in 1..Radix : CharAt(DigitChars, k) = c
DigitVal(c) == (CHOOSE k \in 1..Radix : CharAt(DigitChars, k) = c) - 1
IsSpace(c) == c = " "

RECURSIVE SkipSpaces(_, _)
SkipSpaces(s, i) ==
    IF i <= Len(s) /\ IsSpace(CharAt(s, i)) THEN SkipSpaces(s, i + 1) ELSE i

RECURSIVE Accumulate(_, _, _)
Accumulate(s, i, acc) ==
    IF i <= Len(s) /\ IsDigit(CharAt(s, i))
    THEN Accumulate(s, i + 1, acc * Radix + DigitVal(CharAt(s, i)))
    ELSE acc

NaN == [nan |-> TRUE, v |-> 0]
\* parseInt(data, 10) on String(data)
ParseInt(s) ==
    LET i == SkipSpaces(s, 1)
        neg == i <= Len(s) /\ CharAt(s, i) = "-"
        j == IF i <= Len(s) /\ CharAt(s, i) \in {"-", "+"} THEN i + 1 ELSE i
    IN  IF j <= Len(s) /\ IsDigit(CharAt(s, j))
        THEN [nan |-> FALSE,
              v |-> IF neg THEN 0 - Accumulate(s, j, 0) ELSE Accumulate(s, j, 0)]
        ELSE NaN

\* mutant of OffTask: the threshold itself counts as off-task
OffTaskInclusive(score) == ~score.nan /\ score.v >= OffTaskThreshold

\* offTaskScore > 70 (false for NaN)
OffTask(score) == ~score.nan /\ score.v > OffTaskThreshold

\* the whole decision of the response handler once the session check passed
Intervenes(data) == Truthy(data) /\ OffTask(ParseInt(data.s))

(* ----------------------------- handleOffTask --------------------------- *)
\* tabHistory[tabId] && tabHistory[tabId].length > 1
HasPrevious(tabId) == Len(tabHistory[tabId]) > 1

\* mutant of PreviousUrl: the last entry instead of the one before it
PreviousUrlLast(tabId) == tabHistory[tabId][Len(tabHistory[tabId])]

\* tabHistory[tabId][tabHistory[tabId].length - 2]
PreviousUrl(tabId) == tabHistory[tabId][Len(tabHistory[tabId]) - 1]

\* the delayed step handleOffTask schedules with setTimeout
OffTaskTimer(tabId, from) ==
    [tabId |-> tabId,
     action |-> IF HasPrevious(tabId) THEN "update" ELSE "remove",
     url |-> IF HasPrevious(tabId) THEN PreviousUrl(tabId) ELSE "",
     due |-> now + InterventionDelay,
     gif |-> tabId,
     from |-> from,
     \* history: the session handleOffTask was invoked for
     uid |-> curUid]

\* sendResponse of startTracking: { success: true, goal: currentGoal }
StartTrackingReply == [success |-> TRUE, goal |-> currentGoal]
\* sendResponse of stopTracking
StopTrackingReply == [success |-> TRUE]
\* sendResponse of getTrackingState
GetTrackingStateReply == [isTracking |-> isTracking, goal |-> currentGoal]

Init ==
    /\ currentSession = NoSession
    /\ lastCaptureTime = 0
    /\ isTracking = FALSE
    /\ currentGoal = ""
    /\ tabHistory = [t \in Tabs |-> <<>>]
    /\ now = LoadTime
    /\ timers = {}
    /\ captures = {}
    /\ fetches = {}
    /\ lookups = [t \in Tabs |-> 0]
    /\ offTaskTimers = {}
    /\ sessionIds = <<>>
    /\ curUid = 0
    /\ attempts = {}
    /\ cmdState = [isTracking |-> FALSE, goal |-> ""]

(* --------------------------- the clock --------------------------------- *)
Tick ==
    /\ now + TickStep <= MaxTime
    /\ now' = now + TickStep
    /\ UNCHANGED <<progVars, timers, captures, fetches, lookups, offTaskTimers, sessionIds, curUid, attempts, cmdState>>

(* ----------------------- chrome.runtime.onMessage ---------------------- *)
StartTracking(goal) ==
    /\ isTracking' = TRUE
    /\ currentGoal' = goal
    /\ cmdState' = [isTracking |-> TRUE, goal |-> goal]
    /\ UNCHANGED <<currentSession, lastCaptureTime, tabHistory, now, timers,
                   captures, fetches, lookups, offTaskTimers,
                   sessionIds, curUid, attempts>>

StopTracking ==
    /\ isTracking' = FALSE
    /\ currentSession' = EndSession(currentSession)
    /\ curUid' = 0
    /\ cmdState' = [cmdState EXCEPT !.isTracking = FALSE]
    \* history: remember which scheduled captures a stop command preceded
    /\ timers' = {[t EXCEPT !.stopped = TRUE] : t \in timers}
    /\ UNCHANGED <<lastCaptureTime, currentGoal, tabHistory, now, captures,
                   fetches, lookups, offTaskTimers,
                   sessionIds, attempts>>

\* only sendResponse({ isTracking, goal: currentGoal })
GetTrackingState == UNCHANGED vars

\* a message of any other type: no branch of the listener matches
OtherMessage == UNCHANGED vars

(* ------------------------------ startSession --------------------------- *)
\* mutant of CaptureTimer: the callback is scheduled without delay
CaptureTimerNoDelay(tabId, url) ==
    [tabId |-> tabId, url |-> url, due |-> now,
     uid |-> Len(sessionIds) + 1, stopped |-> FALSE]

\* the callback startSession hands to setTimeout
CaptureTimer(tabId, url) ==
    [tabId |-> tabId, url |-> url, due |-> now + CaptureDelay,
     uid |-> Len(sessionIds) + 1, stopped |-> FALSE]

\* mutant of StartSession: a rejected url leaves the existing session in place
StartSessionRejectKeeps(tabId, url) ==
    IF IsRestricted(url)
    THEN UNCHANGED <<currentSession, curUid, timers, sessionIds>>
    ELSE /\ currentSession' = NewSession(tabId, url)
         /\ timers' = timers \cup {CaptureTimer(tabId, url)}
         /\ sessionIds' = Append(sessionIds, NewSession(tabId, url).sessionId)
         /\ curUid' = Len(sessionIds) + 1

StartSession(tabId, url) ==
    IF IsRestricted(url)
    THEN /\ currentSession' = EndSession(currentSession)
         /\ curUid' = 0
         /\ UNCHANGED <<timers, sessionIds>>
    ELSE /\ currentSession' = NewSession(tabId, url)
         /\ timers' = timers \cup {CaptureTimer(tabId, url)}
         /\ sessionIds' = Append(sessionIds, NewSession(tabId, url).sessionId)
         /\ curUid' = Len(sessionIds) + 1

(* ------------------------------ tab events ----------------------------- *)
\* isTracking && changeInfo.status === "complete" && tab.url
UpdatedGuard(status, url) == isTracking /\ status = "complete" /\ ~Falsy(url)

OnUpdated(tabId, status, url) ==
    /\ UpdatedGuard(status, url)
    /\ tabHistory' = UpdateTabHistory(tabHistory, tabId, url)
    /\ StartSession(tabId, url)
    /\ UNCHANGED <<lastCaptureTime, isTracking, currentGoal, now, captures,
                   fetches, lookups, offTaskTimers, attempts,
                   cmdState>>

\* the listener returns without doing anything
OnUpdatedIgnored ==
    /\ \E status \in Statuses, url \in Urls : ~UpdatedGuard(status, url)
    /\ UNCHANGED vars

OnCreated(tabId, url) ==
    /\ isTracking
    /\ tabHistory' = UpdateTabHistory(tabHistory, tabId, OrAboutBlank(url))
    /\ StartSession(tabId, OrAboutBlank(url))
    /\ UNCHANGED <<lastCaptureTime, isTracking, currentGoal, now, captures,
                   fetches, lookups, offTaskTimers, attempts,
                   cmdState>>

\* onCreated and onActivated while isTracking is false
TabEventIgnored ==
    /\ ~isTracking
    /\ UNCHANGED vars

RECURSIVE Sum(_, _)
Sum(f, S) == IF S = {} THEN 0
             ELSE LET x == CHOOSE y \in S : TRUE IN f[x] + Sum(f, S \ {x})

\* onActivated: chrome.tabs.get is issued, its callback runs later
OnActivated(tabId) ==
    /\ isTracking
    /\ lookups' = [lookups EXCEPT ![tabId] = @ + 1]
    /\ UNCHANGED <<progVars, now, timers, captures, fetches, offTaskTimers, sessionIds, curUid, attempts, cmdState>>

\* mutant of TabLookupDone: the visit is not recorded before the session starts
TabLookupDoneNoRecord(tabId, url) ==
    /\ lookups[tabId] > 0
    /\ lookups' = [lookups EXCEPT ![tabId] = @ - 1]
    /\ StartSession(tabId, url)
    /\ UNCHANGED <<lastCaptureTime, isTracking, currentGoal, tabHistory, now,
                   captures, fetches, offTaskTimers, attempts, cmdState>>

\* the chrome.tabs.get callback, with the tab it is given
TabLookupDone(tabId, url) ==
    /\ lookups[tabId] > 0
    /\ lookups' = [lookups EXCEPT ![tabId] = @ - 1]
    /\ tabHistory' = UpdateTabHistory(tabHistory, tabId, url)
    /\ StartSession(tabId, url)
    /\ UNCHANGED <<lastCaptureTime, isTracking, currentGoal, now, captures,
                   fetches, offTaskTimers, attempts, cmdState>>

\* the chrome.tabs.get callback when the tab is gone: tab is undefined and
\* reading tab.url throws before anything is changed
TabLookupFails(tabId) ==
    /\ lookups[tabId] > 0
    /\ lookups' = [lookups EXCEPT ![tabId] = @ - 1]
    /\ UNCHANGED <<progVars, now, timers, captures, fetches, offTaskTimers, sessionIds, curUid, attempts, cmdState>>

(* ------------------ the delayed capture and takeScreenshot ------------- *)
\* the setTimeout callback of startSession, then takeScreenshot if it is called
CaptureTimerFires(t) ==
    /\ t \in timers
    /\ now >= t.due
    /\ timers' = timers \ {t}
    /\ LET attempted == TimerGuard(t.tabId)
           granted == attempted /\ ~GateDenied(now)
       IN  /\ lastCaptureTime' = IF granted THEN now ELSE lastCaptureTime
           \* captureVisibleTab(null, ...) takes the tab that is visible in the
           \* current window, whichever it is
           /\ \E visible \in Tabs :
                 captures' = IF granted
                             THEN captures \cup {[url |-> t.url,
                                                  sessionId |-> currentSession.sessionId,
                                                  from |-> t.uid,
                                                  stopped |-> t.stopped,
                                                  tabId |-> currentSession.tabId,
                                                  shown |-> visible]}
                             ELSE captures
           /\ attempts' = IF attempted
                          THEN attempts \cup {[uid |-> t.uid, cur |-> curUid,
                                               sessionId |-> currentSession.sessionId]}
                          ELSE attempts
    /\ UNCHANGED <<currentSession, isTracking, currentGoal, tabHistory, now,
                   fetches, lookups, offTaskTimers,
                   sessionIds, curUid, cmdState>>

\* the captureVisibleTab callback without lastError: analyzeScreenshotWithOpenAI
\* up to and including the fetch call
CaptureDone(c) ==
    /\ c \in captures
    /\ captures' = captures \ {c}
    /\ fetches' = IF SessionValid(c.sessionId)
                  THEN fetches \cup {[sessionId |-> c.sessionId, uid |-> curUid,
                                      from |-> c.from, stopped |-> c.stopped]}
                  ELSE fetches
    /\ UNCHANGED <<progVars, now, timers, lookups, offTaskTimers, sessionIds, curUid, attempts, cmdState>>

\* mutant of CaptureFails: the error branch falls through to the analysis
CaptureFailsFallsThrough(c) ==
    /\ c \in captures
    /\ captures' = captures \ {c}
    /\ fetches' = fetches \cup {[sessionId |-> c.sessionId, uid |-> curUid,
                                  from |-> c.from, stopped |-> c.stopped]}
    /\ UNCHANGED <<progVars, now, timers, lookups, offTaskTimers, sessionIds,
                   curUid, attempts, cmdState>>

\* the captureVisibleTab callback with chrome.runtime.lastError set
CaptureFails(c) ==
    /\ c \in captures
    /\ captures' = captures \ {c}
    /\ UNCHANGED <<progVars, now, timers, fetches, lookups, offTaskTimers, sessionIds, curUid, attempts, cmdState>>

(* ------------------------- the classification reply -------------------- *)
\* .then((data) => ...): the session check, the score test, handleOffTask
ResponseArrives(f, data) ==
    /\ f \in fetches
    /\ fetches' = fetches \ {f}
    /\ IF SessionValid(f.sessionId) /\ Intervenes(data)
       THEN offTaskTimers' = offTaskTimers \cup
                                 {OffTaskTimer(currentSession.tabId, f.from)}
       ELSE UNCHANGED offTaskTimers
    /\ UNCHANGED <<progVars, now, timers, captures, lookups,
                   sessionIds, curUid, attempts, cmdState>>

\* .catch: the request failed or the body was no JSON
FetchFails(f) ==
    /\ f \in fetches
    /\ fetches' = fetches \ {f}
    /\ UNCHANGED <<progVars, now, timers, captures, lookups, offTaskTimers, sessionIds, curUid, attempts, cmdState>>

\* mutant of OffTaskTimerFires: the delayed step also ends the session
OffTaskTimerFiresEndsSession(o) ==
    /\ o \in offTaskTimers
    /\ now >= o.due
    /\ offTaskTimers' = offTaskTimers \ {o}
    /\ currentSession' = NoSession
    /\ curUid' = 0
    /\ UNCHANGED <<lastCaptureTime, isTracking, currentGoal, tabHistory, now,
                   timers, captures, fetches, lookups, sessionIds, attempts,
                   cmdState>>

\* the setTimeout callback of handleOffTask: chrome.tabs.update(tabId, { url })
\* when o.action is "update", chrome.tabs.remove(tabId) when it is "remove"
OffTaskTimerFires(o) ==
    /\ o \in offTaskTimers
    /\ now >= o.due
    /\ offTaskTimers' = offTaskTimers \ {o}
    /\ UNCHANGED <<progVars, now, timers, captures, fetches, lookups,
                   sessionIds, curUid, attempts, cmdState>>

(* --------------------------- specifications ---------------------------- *)
\* A tab event is explored while fewer than `limit` sessions were created, or
\* when its url is one startSession rejects.
Explored(limit, url) == IsRestricted(url) \/ Len(sessionIds) < limit

Next ==
    \/ Tick
    \/ \E g \in Goals : StartTracking(g)
    \/ StopTracking
    \/ GetTrackingState
    \/ OtherMessage
    \/ \E t \in Tabs, u \in Urls :
          Explored(MaxSessions, u) /\ OnUpdated(t, "complete", u)
    \/ OnUpdatedIgnored
    \/ \E t \in Tabs, u \in Urls :
          Explored(MaxSessions, OrAboutBlank(u)) /\ OnCreated(t, u)
    \/ TabEventIgnored
    \/ \E t \in Tabs : Sum(lookups, Tabs) < MaxPending /\ OnActivated(t)
    \/ \E t \in Tabs, u \in Urls :
          Explored(MaxSessions, u) /\ TabLookupDone(t, u)
    \/ \E t \in Tabs : TabLookupFails(t)
    \/ \E t \in timers : CaptureTimerFires(t)
    \/ \E c \in captures : CaptureDone(c)
    \/ \E c \in captures : CaptureFails(c)
    \/ \E f \in fetches, d \in Replies : ResponseArrives(f, d)
    \/ \E f \in fetches : FetchFails(f)
    \/ \E o \in offTaskTimers : OffTaskTimerFires(o)

Spec == Init /\ [][Next]_vars

\* A burst of page loads while tracking is on: MaxBurst sessions, no stop
\* command, no tab switch; every request is answered.
NextBurst ==
    \/ Tick
    \/ \E g \in Goals : ~isTracking /\ StartTracking(g)
    \/ \E t \in Tabs, u \in {WorkUrl, SocialUrl} :
          Explored(MaxBurst, u) /\ OnUpdated(t, "complete", u)
    \/ \E t \in timers : CaptureTimerFires(t)
    \/ \E c \in captures : CaptureDone(c)
    \/ \E f \in fetches, d \in Replies : ResponseArrives(f, d)
    \/ \E o \in offTaskTimers : OffTaskTimerFires(o)

SpecBurst == Init /\ [][NextBurst]_vars

(* ------------------------------- claims -------------------------------- *)
\* C1: a capture scheduled for session S1 calls takeScreenshot only if S1 is
\* still the current session when its delay expires; a later session, on the
\* same tab or another, silences S1's timer.
C1_OnlyOwnSessionCaptures ==
    \A a \in attempts : a.cur = a.uid

\* C2: a capture timer that was pending when stopTracking was handled never
\* leads to a request to the scoring endpoint.
C2_NoRequestAfterStop ==
    \A f \in fetches : ~f.stopped

\* C3: handleOffTask follows a response only if the session that was current
\* when the request was issued is still current (same sessionId, not ended
\* or replaced during the round trip), and it targets that session's tab.
C3_ResponseOnlyForLiveSession ==
    [][\A f \in fetches \ fetches' : \A d \in Replies :
          (ResponseArrives(f, d) /\ \E o \in offTaskTimers' : o.from = f.from)
          => /\ currentSession # NoSession
             /\ currentSession.sessionId = f.sessionId
             /\ curUid = f.uid
             /\ \A o \in offTaskTimers' :
                   o.from = f.from => o.tabId = currentSession.tabId]_vars

\* C9: every session created carries a sessionId different from the
\* sessionId of every session created before it.
C9_SessionIdsUnique ==
    \A i, j \in 1..Len(sessionIds) : i # j => sessionIds[i] # sessionIds[j]

\* the takeScreenshot call a step makes, if it makes one
NewAttempts == attempts' \ attempts
\* the interventions a step schedules
NewOffTaskTimers == offTaskTimers' \ offTaskTimers

\* C4: the capture gate is a hard floor: two granted captures are at least
\* 1000 ms apart; a takeScreenshot call made less than 1000 ms after the last
\* granted capture is denied and one made 1000 ms or more after it is granted.
C4_CaptureGate ==
    [][/\ lastCaptureTime' # lastCaptureTime
          => /\ lastCaptureTime' = now
             /\ lastCaptureTime # 0 => lastCaptureTime' - lastCaptureTime >= 1000
       /\ NewAttempts # {}
          => IF lastCaptureTime # 0 /\ now - lastCaptureTime < 1000
             THEN lastCaptureTime' = lastCaptureTime /\ captures' = captures
             ELSE lastCaptureTime' = now /\ captures' # captures]_vars

\* a second capture was granted exactly 1000 ms after the first, and a later
\* takeScreenshot call has been made
C4_Witness ==
    /\ Cardinality(attempts) = 2
    /\ Cardinality(captures) = 2
    /\ lastCaptureTime = LoadTime + CaptureDelay + 1000

\* C5: no tab history holds two equal entries at adjacent positions, and no
\* history holds an empty, chrome:// or about: url.
C5_HistoryClean ==
    \A t \in Tabs :
        \A i \in 1..Len(tabHistory[t]) :
            /\ tabHistory[t][i] \notin {"", Undefined}
            /\ SubSeq(tabHistory[t][i], 1, 9) # "chrome://"
            /\ SubSeq(tabHistory[t][i], 1, 6) # "about:"
            /\ i < Len(tabHistory[t]) => tabHistory[t][i] # tabHistory[t][i + 1]

\* two sessions were started on tab 1 for the same url, which was recorded once
C5_Witness ==
    /\ Len(sessionIds) = 2
    /\ tabHistory[1] = <<WorkUrl>>
    /\ tabHistory[2] = <<>>

\* C6: handleOffTask chooses one delayed action from the tab's history as it
\* is when the verdict arrives: with at least 2 entries a redirect to the
\* second-to-last entry, otherwise a close; the overlay is injected on that
\* tab first, and the action runs no earlier than 2000 ms later.
C6_RedirectOrClose ==
    [][/\ Cardinality(NewOffTaskTimers) <= 1
       /\ \A o \in NewOffTaskTimers :
             LET h == tabHistory[o.tabId] IN
             /\ o.gif = o.tabId
             /\ o.due = now + 2000
             /\ IF Len(h) >= 2
                THEN o.action = "update" /\ o.url = h[Len(h) - 1]
                ELSE o.action = "remove"
       /\ \A o \in offTaskTimers \ offTaskTimers' : now >= o.due]_vars

\* a redirect to the previous page has been scheduled and its delay has elapsed
C6_Witness ==
    \E o \in offTaskTimers :
        /\ o.action = "update"
        /\ o.url = WorkUrl
        /\ tabHistory[o.tabId] = <<WorkUrl, SocialUrl>>
        /\ now >= o.due

C8_LoneNavigationCapturesOnce ==
    /\ [](\A a, b \in attempts : a.uid = b.uid => a = b)
    /\ [](\A t \in timers : \A a \in attempts : a.uid # t.uid)
    /\ [][\A t \in timers \ timers' :
             (CaptureTimerFires(t) /\ timers = {t} /\ curUid = t.uid)
             => /\ NewAttempts = {[uid |-> t.uid, cur |-> t.uid,
                                   sessionId |-> sessionIds[t.uid]]}
                /\ currentSession.tabId = t.tabId
                /\ now >= sessionIds[t.uid] + 2000]_vars

\* the only session ever started has had its one capture attempt
C8_Witness ==
    /\ Len(sessionIds) = 1
    /\ timers = {}
    /\ attempts = {[uid |-> 1, cur |-> 1, sessionId |-> sessionIds[1]]}

\* C10: startTracking sets isTracking and the goal and acknowledges both;
\* stopTracking clears isTracking and leaves no session current;
\* getTrackingState answers with the values the last commands set and
\* changes nothing.
C10_Commands ==
    /\ [](GetTrackingStateReply = cmdState)
    /\ [][/\ \A g \in Goals :
                StartTracking(g)
                => /\ isTracking' /\ currentGoal' = g
                   /\ StartTrackingReply' = [success |-> TRUE, goal |-> g]
          /\ StopTracking
                => /\ ~isTracking' /\ currentSession' = NoSession
                   /\ StopTrackingReply = [success |-> TRUE]
          /\ GetTrackingState => UNCHANGED progVars]_vars

\* tracking was started with the goal "write code" and stopped after a
\* session had been started
C10_Witness ==
    /\ ~isTracking
    /\ currentGoal = "write code"
    /\ sessionIds # <<>>
    /\ currentSession = NoSession

\* the urls startSession rejects, among those the tab events carry
RestrictedUrls == {Undefined, "", "about:blank", "chrome://newtab/"}

\* what a tab event never touches: the clock, the capture and classification
\* pipeline, the tracking flag
TabEventFrame ==
    /\ now' = now
    /\ isTracking' = isTracking
    /\ captures' = captures
    /\ fetches' = fetches
    /\ offTaskTimers' = offTaskTimers
    /\ attempts' = attempts

\* C11: startSession ends the existing session first: a tab event whose url
\* is null, empty, chrome:// or about: (onCreated turns a missing url into
\* about:blank) leaves no session current, schedules no capture timer and
\* creates no session.
C11_RestrictedUrlEndsSession ==
    [][\/ /\ currentSession' = NoSession
          /\ timers' = timers
          /\ sessionIds' = sessionIds
       \/ ~TabEventFrame
       \/ \A t \in Tabs, u \in RestrictedUrls :
             /\ ~OnUpdated(t, "complete", u)
             /\ ~OnCreated(t, u)
             /\ lookups'[t] < lookups[t] => ~TabLookupDone(t, u)]_vars

\* while tracking is on, a session whose capture timer is still pending was
\* ended by an event with a restricted url (no stop command since it started)
C11_Witness ==
    /\ isTracking
    /\ currentSession = NoSession
    /\ \E t \in timers : ~t.stopped

\* the capture timers a step schedules
NewTimers == timers' \ timers

\* C12: at most one session is current: the current session, if any, is the
\* one created last; a step that creates a session replaces the previous one
\* wholesale (tab, url and sessionId are all the new one's); ending the
\* session of an idle manager changes nothing.
C12_OneCurrentSession ==
    /\ [](/\ (currentSession = NoSession) <=> (curUid = 0)
          /\ curUid # 0 => /\ curUid = Len(sessionIds)
                           /\ currentSession.sessionId = sessionIds[curUid])
    /\ [][/\ sessionIds' # sessionIds
             => /\ Len(sessionIds') = Len(sessionIds) + 1
                /\ Cardinality(NewTimers) = 1
                /\ \A t \in NewTimers :
                      currentSession' = [tabId |-> t.tabId, url |-> t.url,
                                         sessionId |-> now]
          /\ (StopTracking /\ currentSession = NoSession)
             => /\ currentSession' = NoSession
                /\ UNCHANGED <<lastCaptureTime, currentGoal, tabHistory,
                               sessionIds, attempts>>]_vars

\* the second session, on tab 2, replaced the first one, on tab 1, while the
\* first one's capture timer was pending
C12_Witness ==
    /\ curUid = 2
    /\ currentSession.tabId = 2
    /\ \E t \in timers : t.uid = 1 /\ t.tabId = 1 /\ ~t.stopped

\* C13: tab histories are append-only: in every step each tab's history
\* before the step is a prefix of its history after it, and a step appends at
\* most one entry, to at most one tab.
C13_HistoryAppendOnly ==
    [][/\ \A t \in Tabs :
             /\ Len(tabHistory'[t]) \in {Len(tabHistory[t]), Len(tabHistory[t]) + 1}
             /\ SubSeq(tabHistory'[t], 1, Len(tabHistory[t])) = tabHistory[t]
       /\ Cardinality({t \in Tabs : tabHistory'[t] # tabHistory[t]}) <= 1]_vars

\* two visits were recorded on tab 2 and are still there after a stop command
C13_Witness ==
    /\ tabHistory[2] = <<SocialUrl, WorkUrl>>
    /\ ~isTracking

\* the bodies that carry no score: absent, empty, not a number
NoScoreReplies == {JNull, JStr(""), JStr("abc")}

\* a step that starts nothing: no intervention, no retry, program state kept
Quiet ==
    /\ UNCHANGED progVars
    /\ offTaskTimers' = offTaskTimers
    /\ timers' = timers
    /\ captures' \subseteq captures
    /\ fetches' \subseteq fetches

\* C14: a granted capture leads to at most one classification request; a
\* capture error, a failed request and a response without a score schedule no
\* intervention and no retry and leave currentSession, tabHistory, the tracking
\* state and lastCaptureTime unchanged; while tracking is on a qualifying page
\* load is accepted in every state, and every session that is started comes
\* with its capture timer.
C14_FailureIsQuiet ==
    /\ [](\A x, y \in captures \cup fetches : x.from = y.from => x = y)
    /\ [](isTracking => ENABLED OnUpdated(1, "complete", WorkUrl))
    /\ [][/\ Cardinality(fetches' \ fetches) <= 1
          /\ \A n \in fetches' \ fetches :
                \E c \in captures \ captures' : c.from = n.from
          /\ \A c \in captures \ captures' : CaptureFails(c) => Quiet
          /\ \A f \in fetches \ fetches' :
                (FetchFails(f) \/ \E d \in NoScoreReplies : ResponseArrives(f, d))
                => Quiet
          /\ sessionIds' # sessionIds
             => \E x \in NewTimers :
                   /\ x.due = now + 2000
                   /\ currentSession' = [tabId |-> x.tabId, url |-> x.url,
                                         sessionId |-> now]]_vars

\* the first session's capture was granted and its cycle ended without an
\* intervention; a page load after that started the second session, whose
\* capture timer is pending
C14_Witness ==
    /\ Len(sessionIds) = 2
    /\ curUid = 2
    /\ attempts = {[uid |-> 1, cur |-> 1, sessionId |-> sessionIds[1]]}
    /\ lastCaptureTime # 0
    /\ sessionIds[2] > lastCaptureTime
    /\ captures = {} /\ fetches = {} /\ offTaskTimers = {}
    /\ \E t \in timers : t.uid = 2

\* C15: handleOffTask and its delayed redirect or close leave currentSession,
\* every tab history, isTracking, the goal and lastCaptureTime unchanged.
C15_InterventionLeavesState ==
    [][/\ NewOffTaskTimers # {} => UNCHANGED progVars
       /\ \A o \in offTaskTimers \ offTaskTimers' :
             OffTaskTimerFires(o) => UNCHANGED progVars]_vars

\* a close was scheduled for the current session's tab, its delay has elapsed,
\* and the session and the history are as they were at the verdict
C15_Witness ==
    \E o \in offTaskTimers :
        /\ o.action = "remove"
        /\ now >= o.due
        /\ o.uid = curUid
        /\ isTracking
        /\ tabHistory[o.tabId] = <<currentSession.url>>

\* C16: whenever isTracking is false no session is current.
C16_NoSessionWhileOff ==
    ~isTracking => currentSession = NoSession

\* C17: a delayed redirect or close is applied only while tracking is on and
\* the session whose verdict scheduled it is still the current one.
C17_InterventionOnlyWhileLive ==
    [][\A o \in offTaskTimers \ offTaskTimers' :
          OffTaskTimerFires(o) => isTracking /\ curUid = o.uid]_vars

\* C18: handleOffTask is invoked at most once for each sessionId: no two
\* scheduled interventions belong to sessions with the same sessionId.
C18_OneInterventionPerSession ==
    \A o, p \in offTaskTimers :
        sessionIds[o.uid] = sessionIds[p.uid] => o = p

\* C19: whenever a session is current its tab's history is non-empty and ends
\* with the session's url; so a scheduled redirect goes to a url other than
\* the session's, and a close is scheduled only for a history of one entry.
C19_SessionUrlIsLastEntry ==
    /\ [](currentSession # NoSession
          => LET h == tabHistory[currentSession.tabId]
             IN  Len(h) >= 1 /\ h[Len(h)] = currentSession.url)
    /\ [][\A o \in NewOffTaskTimers :
             /\ o.tabId = currentSession.tabId
             /\ o.action = "update" => o.url # currentSession.url
             /\ o.action = "remove" => Len(tabHistory[o.tabId]) = 1]_vars

\* a redirect was scheduled for the current session, whose url is the last
\* entry of its tab's history
C19_Witness ==
    \E o \in offTaskTimers :
        /\ o.action = "update"
        /\ o.uid = curUid
        /\ o.url = SocialUrl
        /\ currentSession.url = WorkUrl
        /\ tabHistory[o.tabId] = <<SocialUrl, WorkUrl>>

\* C20: the tab a capture shows is the tab of the session it is taken for.
C20_CaptureShowsSessionTab ==
    \A c \in captures : c.shown = c.tabId
====
